---- MODULE Spec2Model ----
(***************************************************************************)
(* Model of the package manifest linter (src/main.py): the manifest        *)
(* loader (ManifestLinter.__init__ / _load_manifest), the rule evaluator   *)
(* (lint, _lint_npm, _lint_pip, _lint_maven) and the command-line driver   *)
(* (main).  Python strings are TLA+ strings; Python values loaded from a   *)
(* JSON document are records tagged with their Python type in field t.     *)
(***************************************************************************)
EXTENDS FiniteSets, Integers, Sequences, TLC

\* ------------------------------------------------------------------------
\* Bounds of the model
\* ------------------------------------------------------------------------
MaxLines == 2        \* lines of a requirements.txt made of sample lines
MaxLineLen == 2      \* characters of a generated one-line requirements.txt
MaxDeps == 2         \* entries of a generated dependency mapping
MaxRuns == 2         \* runs of the program on the same input

\* ------------------------------------------------------------------------
\* Python values and string methods
\* ------------------------------------------------------------------------
PyNone == [t |-> "NoneType"]
PyStr(s) == [t |-> "str", s |-> s]
PyInt(n) == [t |-> "int", n |-> n]
PyList(elems) == [t |-> "list", elems |-> elems]
\* a dict keeps its keys in insertion order
PyDict(keys, val) == [t |-> "dict", keys |-> keys, val |-> val]

Range(q) == {q[i] : i \in 1..Len(q)}

\* bool(v): the truth value of a Python value
truthy(v) ==
  CASE v.t = "NoneType" -> FALSE
    [] v.t = "str" -> v.s # ""
    [] v.t = "int" -> v.n # 0
    [] v.t = "list" -> v.elems # <<>>
    [] v.t = "dict" -> v.keys # <<>>

\* d.get(k) and k in d, for a dict d
dict_get(d, k) == IF k \in DOMAIN d.val THEN d.val[k] ELSE PyNone
dict_has(d, k) == k \in DOMAIN d.val

\* s.startswith(p)
startswith(s, p) == Len(s) >= Len(p) /\ SubSeq(s, 1, Len(p)) = p

\* sub in s, for strings
str_contains(s, sub) ==
  \E i \in 1..(Len(s) - Len(sub) + 1) : SubSeq(s, i, i + Len(sub) - 1) = sub

\* the characters str.strip() removes from both ends
Whitespace == {" ", "\t", "\n", "\r"}

\* s.strip()
strip(s) ==
  LET keep == {i \in 1..Len(s) : SubSeq(s, i, i) \notin Whitespace}
      lo == CHOOSE i \in keep : \A j \in keep : i <= j
      hi == CHOOSE i \in keep : \A j \in keep : i >= j
  IN IF keep = {} THEN "" ELSE SubSeq(s, lo, hi)

\* sep.join(names)
RECURSIVE join(_, _)
join(sep, names) ==
  IF names = <<>> THEN ""
  ELSE IF Len(names) = 1 THEN names[1]
  ELSE names[1] \o sep \o join(sep, Tail(names))

\* ------------------------------------------------------------------------
\* Exceptions
\* ------------------------------------------------------------------------
NoExc == [cls |-> "", msg |-> ""]
Exc(cls, msg) == [cls |-> cls, msg |-> msg]

\* ------------------------------------------------------------------------
\* Inputs: the format tag, the path and what the path holds
\* ------------------------------------------------------------------------
MANIFEST_TYPES == [npm |-> "package.json", pip |-> "requirements.txt", maven |-> "pom.xml"]

\* the tags a caller may pass: the supported ones and one that is not
TypeTags == DOMAIN MANIFEST_TYPES \cup {"gradle"}
PathOf(tag) == IF tag \in DOMAIN MANIFEST_TYPES THEN MANIFEST_TYPES[tag] ELSE "build.gradle"

\* the characters of the generated lines
Alphabet == {" ", "#", "-", "r", "=", ">", "<", "~"}

RECURSIVE StringsUpTo(_)
StringsUpTo(n) ==
  IF n = 0 THEN {""}
  ELSE LET shorter == StringsUpTo(n - 1)
       IN shorter \cup {s \o c : s \in shorter, c \in Alphabet}

\* the lines of the generated files of several lines
SampleLines ==
  {"flask==2.0.0", "", "# comment", "-r other.txt", "  # indented", "requests",
   "-r==x", "-r", " d<=1\t"}

ExampleFile == <<"flask==2.0.0", "", "# comment", "-r other.txt">>

\* requirements files: every one-line file over the alphabet, the files of
\* sample lines and the example of the specification
TextFiles ==
  {[kind |-> "text", lines |-> l] :
     l \in {<<s>> : s \in StringsUpTo(MaxLineLen)}
            \cup UNION {[1..n -> SampleLines] : n \in 0..MaxLines}
            \cup {ExampleFile}}

DepNames == {"a", "b"}
Versions == {PyStr("^1.*"), PyStr("1.0.0"), PyInt(1)}

KeySeqs ==
  {ks \in UNION {[1..n -> DepNames] : n \in 0..MaxDeps} :
     \A i, j \in 1..Len(ks) : i # j => ks[i] # ks[j]}

DepMaps == UNION {{PyDict(ks, v) : v \in [Range(ks) -> Versions]} : ks \in KeySeqs}

Absent == [t |-> "absent"]
TopKeyOrder == <<"description", "repository", "dependencies", "devDependencies">>

MakeDoc(d, r, deps, dev) ==
  LET all == [description |-> d, repository |-> r,
              dependencies |-> deps, devDependencies |-> dev]
      present == {k \in DOMAIN all : all[k] # Absent}
  IN PyDict(SelectSeq(TopKeyOrder, LAMBDA k : k \in present),
            [k \in present |-> all[k]])

DescriptionValues == {Absent, PyStr(""), PyStr("x")}
RepositoryValues == {Absent, PyStr(""), PyStr("y")}
DepGroupValues == DepMaps \cup {Absent, PyList(<<>>)}

JsonDocs ==
  {MakeDoc(d, r, deps, dev) : d \in DescriptionValues, r \in RepositoryValues,
                              deps \in DepGroupValues, dev \in DepGroupValues}
  \cup {PyList(<<>>), PyStr("x"), PyNone}

JsonFiles == {[kind |-> "json", doc |-> doc] : doc \in JsonDocs} \cup {[kind |-> "badjson"]}

Missing == [kind |-> "missing"]
Unreadable == [kind |-> "unreadable"]

FilesFor(tag) ==
  {Missing, Unreadable} \cup
  (CASE tag = "npm" -> JsonFiles
     [] tag = "pip" -> TextFiles
     [] OTHER -> {[kind |-> "text", lines |-> <<>>]})

VARIABLES mode, manifest_type, manifest_file, file, pc, manifest_data, raised,
          linting_messages, stdout, exit_code, trace, run, previous

vars == <<mode, manifest_type, manifest_file, file, pc, manifest_data, raised,
          linting_messages, stdout, exit_code, trace, run, previous>>

Unset == [t |-> "unset"]

\* ------------------------------------------------------------------------
\* The loader
\* ------------------------------------------------------------------------
\* f.readlines(): every line keeps its line terminator
readlines(f) == [i \in 1..Len(f.lines) |-> f.lines[i] \o "\n"]

\* the list comprehension of line 61
pip_dependencies(data) ==
  LET kept == SelectSeq(data, LAMBDA line : strip(line) # "" /\ ~startswith(line, "#"))
  IN [i \in 1..Len(kept) |-> strip(kept[i])]

\* the body of the try statement: [exc, data]
load_try(tag, path, f) ==
  CASE tag = "npm" ->
         IF f.kind = "unreadable" THEN [exc |-> Exc("OSError", path), data |-> Unset]
         ELSE IF f.kind = "badjson" THEN [exc |-> Exc("JSONDecodeError", path), data |-> Unset]
         ELSE [exc |-> NoExc, data |-> f.doc]
    [] tag = "pip" ->
         IF f.kind = "unreadable" THEN [exc |-> Exc("OSError", path), data |-> Unset]
         ELSE [exc |-> NoExc,
               data |-> PyDict(<<"dependencies">>,
                               [k \in {"dependencies"} |-> PyList(pip_dependencies(readlines(f)))])]
    [] tag = "maven" -> [exc |-> NoExc, data |-> PyDict(<<>>, <<>>)]
    [] OTHER -> [exc |-> Exc("ValueError", "Unsupported manifest type: " \o tag), data |-> Unset]

\* the except clauses of the try statement
load_except(path, r) ==
  IF r.exc = NoExc THEN r
  ELSE IF r.exc.cls = "JSONDecodeError"
       THEN [exc |-> Exc("ValueError", "Invalid JSON in " \o path), data |-> Unset]
       ELSE [exc |-> Exc("Exception", "Error loading manifest file: " \o path), data |-> Unset]

_load_manifest(tag, path, f) ==
  IF f.kind = "missing"
  THEN [exc |-> Exc("FileNotFoundError", "Manifest file not found: " \o path), data |-> Unset]
  ELSE load_except(path, load_try(tag, path, f))

Init ==
  /\ mode \in {"cli", "api"}
  /\ manifest_type \in TypeTags
  /\ manifest_file = PathOf(manifest_type)
  /\ file \in FilesFor(manifest_type)
  /\ pc = IF mode = "cli" THEN "main" ELSE "init"
  /\ manifest_data = Unset
  /\ raised = NoExc
  /\ linting_messages = <<>>
  /\ stdout = <<>>
  /\ exit_code = -1
  /\ trace = <<>>
  /\ run = 1
  /\ previous = Unset

\* ManifestLinter.__init__
LoadManifest ==
  /\ pc = "init"
  /\ LET r == _load_manifest(manifest_type, manifest_file, file)
     IN /\ manifest_data' = r.data
        /\ raised' = r.exc
        /\ pc' = IF r.exc = NoExc THEN "lint"
                 ELSE IF mode = "cli" THEN "except" ELSE "exit"
  /\ trace' = Append(trace, "_load_manifest")
  /\ UNCHANGED <<mode, manifest_type, manifest_file, file, linting_messages,
                 stdout, exit_code, run, previous>>

\* ------------------------------------------------------------------------
\* The rule evaluator
\* ------------------------------------------------------------------------
\* a call's outcome: the exception it raised (NoExc if none) and its result
Returned(messages) == [exc |-> NoExc, messages |-> messages]
Raised(cls, msg) == [exc |-> Exc(cls, msg), messages |-> <<>>]
NoAttribute(v, attr) ==
  Raised("AttributeError", "'" \o v.t \o "' object has no attribute '" \o attr \o "'")
NotIterable(v) ==
  Raised("TypeError", "argument of type '" \o v.t \o "' is not iterable")

\* run b after a: an exception of a ends the function, else the lists add up
Then(a, b) ==
  IF a.exc # NoExc THEN a
  ELSE IF b.exc # NoExc THEN b
  ELSE Returned(a.messages \o b.messages)

\* the iteration orders a set of names can have: one per hash seed of the process
SetOrders ==
  {o \in [1..Cardinality(DepNames) -> DepNames] :
     \A i, j \in 1..Cardinality(DepNames) : i # j => o[i] # o[j]}

\* lines 105-107
npm_description(data) ==
  IF ~truthy(dict_get(data, "description"))
  THEN Returned(<<"Warning: 'description' field is missing in package.json">>)
  ELSE Returned(<<>>)

\* lines 109-111
npm_repository(data) ==
  IF ~truthy(dict_get(data, "repository"))
  THEN Returned(<<"Warning: 'repository' field is missing in package.json">>)
  ELSE Returned(<<>>)

\* npm_common with the union of the two key sets in place of the intersection
npm_common_union(data, set_order) ==
  IF dict_has(data, "dependencies") /\ dict_has(data, "devDependencies")
  THEN LET deps == data.val["dependencies"]
           dev == data.val["devDependencies"]
       IN IF deps.t # "dict" THEN NoAttribute(deps, "keys")
          ELSE IF dev.t # "dict" THEN NoAttribute(dev, "keys")
          ELSE LET common_deps == Range(deps.keys) \cup Range(dev.keys)
               IN IF common_deps # {}
                  THEN Returned(<<"Warning: The following dependencies exist in both 'dependencies' and 'devDependencies': "
                                  \o join(", ", SelectSeq(set_order, LAMBDA n : n \in common_deps))>>)
                  ELSE Returned(<<>>)
  ELSE Returned(<<>>)

\* lines 113-117; set_order is the order in which the set of names iterates
npm_common(data, set_order) ==
  IF dict_has(data, "dependencies") /\ dict_has(data, "devDependencies")
  THEN LET deps == data.val["dependencies"]
           dev == data.val["devDependencies"]
       IN IF deps.t # "dict" THEN NoAttribute(deps, "keys")
          ELSE IF dev.t # "dict" THEN NoAttribute(dev, "keys")
          ELSE LET common_deps == Range(deps.keys) \cap Range(dev.keys)
               IN IF common_deps # {}
                  THEN Returned(<<"Warning: The following dependencies exist in both 'dependencies' and 'devDependencies': "
                                  \o join(", ", SelectSeq(set_order, LAMBDA n : n \in common_deps))>>)
                  ELSE Returned(<<>>)
  ELSE Returned(<<>>)

\* lines 123-124, for one item of a dependency mapping
npm_wildcard_item(dep, version) ==
  CASE version.t = "str" ->
         IF str_contains(version.s, "*")
         THEN Returned(<<"Warning: Dependency " \o dep \o " has a wildcard version: " \o version.s>>)
         ELSE Returned(<<>>)
    [] version.t \in {"int", "NoneType"} -> NotIterable(version)

\* line 122: the items of one mapping, from the i-th on
RECURSIVE npm_wildcard_items(_, _)
npm_wildcard_items(group, i) ==
  IF i > Len(group.keys) THEN Returned(<<>>)
  ELSE Then(npm_wildcard_item(group.keys[i], group.val[group.keys[i]]),
            npm_wildcard_items(group, i + 1))

\* lines 121-124, for one dep_type
npm_wildcard_group(data, dep_type) ==
  IF dict_has(data, dep_type)
  THEN IF data.val[dep_type].t # "dict" THEN NoAttribute(data.val[dep_type], "items")
       ELSE npm_wildcard_items(data.val[dep_type], 1)
  ELSE Returned(<<>>)

\* npm_wildcards that scans devDependencies only when dependencies is present
npm_wildcards_nested(data) ==
  IF dict_has(data, "dependencies")
  THEN Then(npm_wildcard_group(data, "dependencies"), npm_wildcard_group(data, "devDependencies"))
  ELSE Returned(<<>>)

\* line 120
npm_wildcards(data) ==
  Then(npm_wildcard_group(data, "dependencies"), npm_wildcard_group(data, "devDependencies"))

_lint_npm(data, set_order) ==
  IF data.t # "dict" THEN NoAttribute(data, "get")
  ELSE Then(npm_description(data),
       Then(npm_repository(data),
       Then(npm_common(data, set_order), npm_wildcards(data))))

\* pip_line with the second check as an elif of the first
pip_line_elif(dep) ==
  IF ~str_contains(dep, "==") /\ ~str_contains(dep, ">=")
     /\ ~str_contains(dep, "<=") /\ ~str_contains(dep, "~=")
  THEN <<"Warning: Dependency '" \o dep \o "' does not have a specific version specified. Consider using '==' for reproducible builds.">>
  ELSE IF startswith(dep, "-r")
  THEN <<"Info: Dependency includes another requirement file '" \o dep \o "'.  Verify included files are present.">>
  ELSE <<>>

\* pip_line with the two checks in the other order
pip_line_swapped(dep) ==
  (IF startswith(dep, "-r")
   THEN <<"Info: Dependency includes another requirement file '" \o dep \o "'.  Verify included files are present.">>
   ELSE <<>>)
  \o
  (IF ~str_contains(dep, "==") /\ ~str_contains(dep, ">=")
      /\ ~str_contains(dep, "<=") /\ ~str_contains(dep, "~=")
   THEN <<"Warning: Dependency '" \o dep \o "' does not have a specific version specified. Consider using '==' for reproducible builds.">>
   ELSE <<>>)

\* lines 139-143, for one dependency line
pip_line(dep) ==
  (IF ~str_contains(dep, "==") /\ ~str_contains(dep, ">=")
      /\ ~str_contains(dep, "<=") /\ ~str_contains(dep, "~=")
   THEN <<"Warning: Dependency '" \o dep \o "' does not have a specific version specified. Consider using '==' for reproducible builds.">>
   ELSE <<>>)
  \o
  (IF startswith(dep, "-r")
   THEN <<"Info: Dependency includes another requirement file '" \o dep \o "'.  Verify included files are present.">>
   ELSE <<>>)

\* line 138
RECURSIVE pip_lines(_)
pip_lines(deps) ==
  IF deps = <<>> THEN <<>> ELSE pip_line(Head(deps)) \o pip_lines(Tail(deps))

_lint_pip(data) ==
  IF dict_has(data, "dependencies")
  THEN Returned(pip_lines(data.val["dependencies"].elems))
  ELSE Returned(<<>>)

_lint_maven == Returned(<<"Maven linting is not fully implemented yet.  This is a placeholder.">>)

lint(tag, data, set_order) ==
  CASE tag = "npm" -> _lint_npm(data, set_order)
    [] tag = "pip" -> _lint_pip(data)
    [] tag = "maven" -> _lint_maven
    [] OTHER -> Returned(<<>>)

\* ------------------------------------------------------------------------
\* The driver
\* ------------------------------------------------------------------------
\* parser.parse_args(): --type must be one of the choices, else argparse exits with 2
ParseArgs ==
  /\ pc = "main"
  /\ IF manifest_type \in DOMAIN MANIFEST_TYPES
     THEN pc' = "init" /\ UNCHANGED exit_code
     ELSE pc' = "exit" /\ exit_code' = 2
  /\ trace' = Append(trace, "parse_args")
  /\ UNCHANGED <<mode, manifest_type, manifest_file, file, manifest_data, raised,
                 linting_messages, stdout, run, previous>>

\* ManifestLinter.lint
Lint ==
  /\ pc = "lint"
  /\ \E set_order \in SetOrders :
       LET r == lint(manifest_type, manifest_data, set_order)
       IN /\ linting_messages' = r.messages
          /\ raised' = r.exc
          /\ pc' = IF mode = "cli"
                   THEN (IF r.exc = NoExc THEN "report" ELSE "except")
                   ELSE "exit"
  /\ trace' = Append(trace, "lint")
  /\ UNCHANGED <<mode, manifest_type, manifest_file, file, manifest_data,
                 stdout, exit_code, run, previous>>

\* Report that returns 0 also when there are messages
Report_zero ==
  /\ pc = "report"
  /\ IF linting_messages # <<>>
     THEN /\ stdout' = stdout \o <<"Linting results:">> \o linting_messages
          /\ exit_code' = 0
     ELSE /\ stdout' = Append(stdout, "No linting issues found.")
          /\ exit_code' = 0
  /\ pc' = "exit"
  /\ trace' = Append(trace, "report")
  /\ UNCHANGED <<mode, manifest_type, manifest_file, file, manifest_data, raised,
                 linting_messages, run, previous>>

\* main, lines 197-204
Report ==
  /\ pc = "report"
  /\ IF linting_messages # <<>>
     THEN /\ stdout' = stdout \o <<"Linting results:">> \o linting_messages
          /\ exit_code' = 1
     ELSE /\ stdout' = Append(stdout, "No linting issues found.")
          /\ exit_code' = 0
  /\ pc' = "exit"
  /\ trace' = Append(trace, "report")
  /\ UNCHANGED <<mode, manifest_type, manifest_file, file, manifest_data, raised,
                 linting_messages, run, previous>>

\* main, lines 206-214
HandleError ==
  /\ pc = "except"
  /\ stdout' = Append(stdout,
                      IF raised.cls \in {"FileNotFoundError", "ValueError"}
                      THEN "Error: " \o raised.msg
                      ELSE "An unexpected error occurred: " \o raised.msg)
  /\ exit_code' = 1
  /\ pc' = "exit"
  /\ trace' = Append(trace, "except")
  /\ UNCHANGED <<mode, manifest_type, manifest_file, file, manifest_data, raised,
                 linting_messages, run, previous>>

\* the program is started once more on the same input
Rerun ==
  /\ pc = "exit"
  /\ run < MaxRuns
  /\ previous' = [linting_messages |-> linting_messages, raised |-> raised,
                  manifest_data |-> manifest_data, stdout |-> stdout,
                  exit_code |-> exit_code]
  /\ pc' = IF mode = "cli" THEN "main" ELSE "init"
  /\ manifest_data' = Unset
  /\ raised' = NoExc
  /\ linting_messages' = <<>>
  /\ stdout' = <<>>
  /\ exit_code' = -1
  /\ trace' = <<>>
  /\ run' = run + 1
  /\ UNCHANGED <<mode, manifest_type, manifest_file, file>>

Next ==
  \/ ParseArgs
  \/ LoadManifest
  \/ Lint
  \/ Report
  \/ HandleError
  \/ Rerun

Spec == Init /\ [][Next]_vars

\* ------------------------------------------------------------------------
\* Properties
\* ------------------------------------------------------------------------
Called(name) == name \in Range(trace)
\* the evaluator has returned its list of messages
Evaluated == Called("lint") /\ raised = NoExc
\* the loader has failed: the constructor raised and there is no linter
LoadFailed == Called("_load_manifest") /\ manifest_data = Unset
IsDiagnosticLine(l) == startswith(l, "Warning") \/ startswith(l, "Info")

\* C1: the driver exits with 0 when the loader succeeded and the evaluator
\* returned no diagnostics, with 1 when the evaluator returned diagnostics or
\* the loader failed; after a loader failure the evaluator has not run and
\* nothing but one error line is printed.
C1_ExitCode ==
  (mode = "cli" /\ pc = "exit" /\ Called("_load_manifest")) =>
      /\ (Evaluated /\ linting_messages = <<>>) => exit_code = 0
      /\ (Evaluated /\ linting_messages # <<>>) => exit_code = 1
      /\ LoadFailed =>
           /\ exit_code = 1
           /\ ~Called("lint")
           /\ linting_messages = <<>>
           /\ Len(stdout) = 1
           /\ ~IsDiagnosticLine(stdout[1])
           /\ stdout[1] # "Linting results:"

C1_Witness ==
  /\ mode = "cli" /\ pc = "exit" /\ LoadFailed /\ exit_code = 1
  /\ file.kind = "missing"

C1_WitnessClean ==
  mode = "cli" /\ pc = "exit" /\ Evaluated /\ linting_messages = <<>> /\ exit_code = 0

C1_WitnessDiagnostics ==
  mode = "cli" /\ pc = "exit" /\ Evaluated /\ linting_messages # <<>> /\ exit_code = 1

\* the lines of a requirements file the specification keeps, trimmed
RECURSIVE KeptLines(_)
KeptLines(lines) ==
  IF lines = <<>> THEN <<>>
  ELSE LET trimmed == strip(Head(lines))
       IN (IF trimmed # "" /\ SubSeq(trimmed, 1, 1) # "#" THEN <<trimmed>> ELSE <<>>)
          \o KeptLines(Tail(lines))

PipLoaded == manifest_type = "pip" /\ Called("_load_manifest") /\ manifest_data # Unset
PipDeps == manifest_data.val["dependencies"].elems

\* C2: the pip loader keeps a line iff, trimmed, it is non-empty and does not
\* start with '#'; the normalized manifest is the kept lines, trimmed, in file
\* order, and no diagnostic is about a blank or '#'-prefixed line.
C2_PipFilter ==
  PipLoaded =>
      /\ PipDeps = KeptLines(file.lines)
      /\ Evaluated =>
           \A i \in 1..Len(linting_messages) :
              \E j \in 1..Len(KeptLines(file.lines)) :
                 str_contains(linting_messages[i], "'" \o KeptLines(file.lines)[j] \o "'")

ExampleInfo ==
  "Info: Dependency includes another requirement file '-r other.txt'.  Verify included files are present."
ExampleWarning ==
  "Warning: Dependency '-r other.txt' does not have a specific version specified. Consider using '==' for reproducible builds."
ExampleRun == manifest_type = "pip" /\ file.kind = "text" /\ file.lines = ExampleFile

\* C3 as stated: the example file yields exactly one diagnostic, the Info
\* about '-r other.txt', and the exit code is 1.
C3_ExampleOneInfo ==
  (ExampleRun /\ Called("lint")) =>
      /\ linting_messages = <<ExampleInfo>>
      /\ (mode = "cli" /\ pc = "exit") => exit_code = 1

\* C3 as amended: the example file yields exactly two diagnostics, the
\* unpinned-version Warning for '-r other.txt' followed by the Info about
\* '-r other.txt'; 'flask==2.0.0' produces nothing; the exit code is 1.
C3_ExampleWarningThenInfo ==
  (ExampleRun /\ Called("lint")) =>
      /\ raised = NoExc
      /\ linting_messages = <<ExampleWarning, ExampleInfo>>
      /\ (mode = "cli" /\ pc = "exit") => exit_code = 1

C3_Witness ==
  /\ ExampleRun /\ mode = "cli" /\ pc = "exit" /\ Called("lint")
  /\ Len(linting_messages) = 2 /\ exit_code = 1

\* C4: the evaluator never raises, whatever manifest the loader returned.
C4_EvaluatorNeverFails == Called("lint") => raised = NoExc

Unpinned(d) ==
  \A i \in 1..(Len(d) - 1) : SubSeq(d, i, i + 1) \notin {"==", ">=", "<=", "~="}
Includes(d) == Len(d) >= 2 /\ SubSeq(d, 1, 1) = "-" /\ SubSeq(d, 2, 2) = "r"
UnpinnedWarning(d) ==
  "Warning: Dependency '" \o d \o "' does not have a specific version specified. Consider using '==' for reproducible builds."
IncludeInfo(d) ==
  "Info: Dependency includes another requirement file '" \o d \o "'.  Verify included files are present."
CountOf(d) == (IF Unpinned(d) THEN 1 ELSE 0) + (IF Includes(d) THEN 1 ELSE 0)
\* the number of diagnostics of the lines before the i-th
RECURSIVE Before(_, _)
Before(deps, i) == IF i <= 1 THEN 0 ELSE Before(deps, i - 1) + CountOf(deps[i - 1])

\* C5: every pip line produces one unpinned-version Warning iff it contains
\* none of '==', '>=', '<=', '~=', and one Info iff it starts with '-r'; the
\* Warning precedes the Info and earlier lines precede later lines.
C5_PipDiagnostics ==
  (PipLoaded /\ Called("lint")) =>
      /\ raised = NoExc
      /\ Len(linting_messages) = Before(PipDeps, Len(PipDeps) + 1)
      /\ \A i \in 1..Len(PipDeps) :
           LET d == PipDeps[i]
               at == Before(PipDeps, i)
           IN /\ Unpinned(d) => linting_messages[at + 1] = UnpinnedWarning(d)
              /\ Includes(d) => linting_messages[at + CountOf(d)] = IncludeInfo(d)

C5_Witness ==
  /\ PipLoaded /\ Called("lint")
  /\ PipDeps = <<"-r", "-r==x">>
  /\ Len(linting_messages) = 3

\* C6: every diagnostic starts with the severity tag Warning or Info; for
\* maven there is exactly one diagnostic and it carries the Info severity.
C6_SeverityTag ==
  Evaluated =>
      /\ \A i \in 1..Len(linting_messages) : IsDiagnosticLine(linting_messages[i])
      /\ manifest_type = "maven" =>
           Len(linting_messages) = 1 /\ startswith(linting_messages[1], "Info")

\* the failures of the loader the unsupported tag must differ from
NotFoundError(path) == _load_manifest("npm", path, Missing).exc
InvalidFormatError(path) == _load_manifest("npm", path, [kind |-> "badjson"]).exc
GenericLoadError(path) == _load_manifest("pip", path, Unreadable).exc

\* C7: for a tag outside npm, pip, maven and an existing readable file the
\* loader fails, returns no manifest, and the failure is distinguishable from
\* NotFound, InvalidFormat and the generic load error.
C7_UnsupportedFormat ==
  (manifest_type \notin DOMAIN MANIFEST_TYPES /\ file.kind = "text" /\ Called("_load_manifest")) =>
      /\ manifest_data = Unset
      /\ raised # NoExc
      /\ raised \notin {NotFoundError(manifest_file), InvalidFormatError(manifest_file),
                        GenericLoadError(manifest_file)}

\* an npm manifest of the data model: an object whose dependency groups, where
\* present, map names to version strings
IsStringMap(v) == v.t = "dict" /\ \A k \in DOMAIN v.val : v.val[k].t = "str"
NpmManifest ==
  /\ manifest_type = "npm" /\ Called("_load_manifest") /\ manifest_data # Unset
  /\ manifest_data.t = "dict"
  /\ \A g \in {"dependencies", "devDependencies"} :
       g \in DOMAIN manifest_data.val => IsStringMap(manifest_data.val[g])
Group(g) == manifest_data.val[g]
HasGroup(g) == g \in DOMAIN manifest_data.val
Shared ==
  IF HasGroup("dependencies") /\ HasGroup("devDependencies")
  THEN {n \in DOMAIN Group("dependencies").val : n \in DOMAIN Group("devDependencies").val}
  ELSE {}
OverlapPrefix ==
  "Warning: The following dependencies exist in both 'dependencies' and 'devDependencies': "
OverlapWarnings == SelectSeq(linting_messages, LAMBDA m : startswith(m, OverlapPrefix))
\* the ways of listing a set of names, each once
Listings(S) ==
  {l \in [1..Cardinality(S) -> S] : \A n \in S : \E i \in 1..Cardinality(S) : l[i] = n}

\* C8: for an npm manifest the overlap Warning is emitted once if both groups
\* are present and share a key, never otherwise, and it lists exactly the
\* names of the intersection, each once.
C8_Overlap ==
  (NpmManifest /\ Called("lint")) =>
      /\ raised = NoExc
      /\ Len(OverlapWarnings) = (IF Shared # {} THEN 1 ELSE 0)
      /\ Shared # {} =>
           \E l \in Listings(Shared) : OverlapWarnings[1] = OverlapPrefix \o join(", ", l)

C8_Witness ==
  /\ NpmManifest /\ Called("lint")
  /\ Cardinality(Shared) = 1
  /\ Cardinality(DOMAIN Group("dependencies").val) = 2
  /\ Len(OverlapWarnings) = 1

C8_WitnessTwo ==
  NpmManifest /\ Called("lint") /\ Cardinality(Shared) = 2 /\ Len(OverlapWarnings) = 1

HasStar(v) == \E i \in 1..Len(v) : SubSeq(v, i, i) = "*"
\* the entries of a group, in the mapping's order
Entries(g) ==
  IF HasGroup(g)
  THEN [i \in 1..Len(Group(g).keys) |->
          [name |-> Group(g).keys[i], version |-> Group(g).val[Group(g).keys[i]].s]]
  ELSE <<>>
StarEntries ==
  SelectSeq(Entries("dependencies") \o Entries("devDependencies"),
            LAMBDA e : HasStar(e.version))
WildcardWarnings ==
  SelectSeq(linting_messages, LAMBDA m : str_contains(m, " has a wildcard version: "))

\* C9: for an npm manifest there is one wildcard Warning per dependency whose
\* version contains '*' and none for the others; the Warnings list the
\* entries of dependencies and then those of devDependencies, each group in
\* its mapping's order, also when the other group is absent.
C9_Wildcards ==
  (NpmManifest /\ Called("lint")) =>
      /\ raised = NoExc
      /\ Len(WildcardWarnings) = Len(StarEntries)
      /\ \A i \in 1..Len(StarEntries) :
           WildcardWarnings[i] =
             "Warning: Dependency " \o StarEntries[i].name
               \o " has a wildcard version: " \o StarEntries[i].version

C9_Witness ==
  /\ NpmManifest /\ Called("lint")
  /\ ~HasGroup("dependencies")
  /\ Len(Entries("devDependencies")) = 2
  /\ Len(StarEntries) = 1
  /\ Len(WildcardWarnings) = 1

C9_WitnessBoth ==
  /\ NpmManifest /\ Called("lint")
  /\ Len(Entries("dependencies")) = 2 /\ Len(Entries("devDependencies")) = 2
  /\ Len(StarEntries) = 3

\* C10: a second run of the program on the same input yields the same
\* diagnostics, in order and content, as the first, and an evaluation leaves
\* the manifest as the loader returned it.
C10_Deterministic ==
  (run > 1 /\ Called("lint")) =>
      /\ linting_messages = previous.linting_messages
      /\ raised = previous.raised
      /\ manifest_data = previous.manifest_data
====
